---------------------------- MODULE Spec2Model ----------------------------
(***************************************************************************)
(* Session state machine of the CrossFit form analyzer (src/app.py).       *)
(*                                                                         *)
(* The script is re-executed top to bottom on every user interaction.      *)
(* One run of the script is one action of this model, except that the      *)
(* blocking polling loop of the analyze handler advances one iteration     *)
(* per step.  st.session_state persists between runs; the widgets' return  *)
(* values (buttons, query text, voice selection) and the remote services'  *)
(* answers are the inputs of a run.                                        *)
(***************************************************************************)
EXTENDS Integers, Sequences, FiniteSets, TLC

(***************************************************************************)
(* Bounds of the model.                                                    *)
(***************************************************************************)
\* temp file names that can exist at once (names are abstracted to 1..MaxFiles)
MaxFiles == 4
\* chunks the speech service streams in one synthesis
MaxChunks == 2
\* poll requests recorded in one run's request log (later ones are not logged)
MaxPolls == 2

(***************************************************************************)
(* Values.                                                                 *)
(***************************************************************************)
\* Python's None for the string-valued fields
None == "None"
\* no temp file path bound (video_path is unbound when no video is present)
NoPath == 0

\* uploaded videos the user can choose between
Videos == {"squat.mp4", "snatch.mov"}
\* text of the query text area; "" is the blank query
Queries == {"", "check my squat depth"}
\* response.content of the analysis prompt
AnalysisTexts == {"", "analysis A", "analysis B"}
\* script_response.content of the narration prompt
ScriptTexts == {"script A", "script B"}
\* audio chunks streamed by text_to_speech.convert (byte strings)
ChunkValues == {<<1>>, <<2, 3>>}
\* values of the optional speech credential in the secrets file
KeyValues == {None, "", "sk-eleven"}
\* states of the remote video handle; READY stands for every state that is
\* neither PROCESSING nor FAILED
HandleStates == {"PROCESSING", "READY", "FAILED"}
\* the hardcoded default voice id
DefaultVoice == "21m00Tcm4TlvDq8ikWAM"
\* voice catalogs the speech service can answer with
Catalogs ==
    { <<>>,
      << [name |-> "Rachel", voice_id |-> "id-rachel"],
         [name |-> "Adam", voice_id |-> "id-adam"] >> }
\* outcome of client.voices.get_all(): a catalog or an exception
CatalogOutcomes == [ok : {TRUE}, voices : Catalogs] \cup [ok : {FALSE}, voices : {<<>>}]

\* messages surfaced to the user
MsgEmptyQuery == "Please enter a question about your form to analyze the video."
MsgSlow == "Video processing is taking longer than expected. Please be patient."
MsgAnalysisError == "Analysis error"
MsgVoiceIssue == "Voice selection issue. Using default voice."
MsgVoicesError == "Could not retrieve voices"
MsgKeyMissing == "ElevenLabs API key missing."
MsgKeyNeeded == "ElevenLabs API key needed for audio."
MsgAudioError == "Audio generation error"

\* Python truthiness of an optional string
Truthy(s) == s # None /\ s # ""

\* a variant that takes every configured value, the blank one too, for a key
HasKeyLoose(key) == key # None

\* if elevenlabs_api_key:
HasKey(key) == Truthy(key)

\* a variant without the blank-query check
QueryIsEmptyNever(q) == FALSE

\* if not user_query:
QueryIsEmpty(q) == ~Truthy(q)

VARIABLES
    API_KEY_ELEVENLABS, \* the speech credential read from the secrets
    session_state,      \* st.session_state: analysis_result, audio_script, audio, flags
    audio_source,       \* the clean_text the stored audio was synthesized from
    video_file,         \* value of the file uploader widget
    disk,               \* temp files that exist on disk
    video_path,         \* temp file created by the current run
    button,             \* the button whose press triggered the current run
    user_query,         \* value of the query text area in the current run
    pc,                 \* "idle" between runs, "polling" inside the polling loop
    processed_video,    \* state of the remote handle held by the analyze handler
    slow,               \* the polling loop has run for more than 60 seconds
    requests,           \* remote requests issued by the current run, in order
    messages,           \* warnings and errors surfaced by the current run
    played              \* audio handed to st.audio by the current run

vars == << API_KEY_ELEVENLABS, session_state, audio_source, video_file, disk,
           video_path, button, user_query, pc, processed_video, slow, requests,
           messages, played >>

\* the persistent part of the state
session == << session_state, audio_source >>

(***************************************************************************)
(* Helpers.                                                                *)
(***************************************************************************)
\* tempfile.NamedTemporaryFile picks a name no existing file has
FreeNames(d) == (1..MaxFiles) \ d

NewTemp(d) == CHOOSE f \in FreeNames(d) : \A g \in FreeNames(d) : f <= g

\* sequences over S of length at most n
RECURSIVE SeqsUpTo(_, _)
SeqsUpTo(S, n) ==
    IF n = 0 THEN {<<>>}
    ELSE LET shorter == SeqsUpTo(S, n - 1)
         IN shorter \cup {Append(q, x) : q \in {r \in shorter : Len(r) = n - 1}, x \in S}

\* a variant that puts each chunk in front of what was received before
RECURSIVE AccumulateReversed(_, _)
AccumulateReversed(audio_bytes, chunks) ==
    IF chunks = <<>> THEN audio_bytes
    ELSE AccumulateReversed(Head(chunks) \o audio_bytes, Tail(chunks))

\* audio_bytes = b""; for chunk in audio_generator: audio_bytes += chunk
RECURSIVE Accumulate(_, _)
Accumulate(audio_bytes, chunks) ==
    IF chunks = <<>> THEN audio_bytes
    ELSE Accumulate(audio_bytes \o Head(chunks), Tail(chunks))

\* next((v.voice_id for v in voices if v.name == selected_voice_name), None)
RECURSIVE FirstVoiceId(_, _)
FirstVoiceId(voices, selected_voice_name) ==
    IF voices = <<>> THEN None
    ELSE IF Head(voices).name = selected_voice_name THEN Head(voices).voice_id
    ELSE FirstVoiceId(Tail(voices), selected_voice_name)

\* what the user can have selected in the voice selectbox (0: no option)
Picks(cat) == IF cat.ok /\ Len(cat.voices) > 0 THEN 1..Len(cat.voices) ELSE {0}

\* number of requests of one kind in a request log
CountOp(reqs, op) == Cardinality({i \in 1..Len(reqs) : reqs[i].op = op})

\* outcomes of the remote calls
PromptOutcomes == [ok : {TRUE}, content : AnalysisTexts] \cup [ok : {FALSE}, content : {None}]
ScriptOutcomes == [ok : {TRUE}, content : ScriptTexts] \cup [ok : {FALSE}, content : {None}]
\* a stream that completes, or one that raises after some chunks were received
TtsOutcomes ==
    [ok : {TRUE}, chunks : SeqsUpTo(ChunkValues, MaxChunks)]
        \cup [ok : {FALSE}, chunks : SeqsUpTo({<<1>>}, MaxChunks)]

(***************************************************************************)
(* Voice options (expander "Audio Voice Settings").                        *)
(***************************************************************************)
\* a variant that keeps what the lookup produced, without falling back to the
\* default voice
VoiceLookupNoFallback(key, cat, pick) ==
    IF HasKey(key)
    THEN IF cat.ok
         THEN LET selected_voice_name ==
                      IF pick = 0 THEN None ELSE cat.voices[pick].name
              IN [voice_id |-> FirstVoiceId(cat.voices, selected_voice_name),
                  reqs |-> << [op |-> "voices", ok |-> TRUE] >>,
                  msgs |-> IF Truthy(FirstVoiceId(cat.voices, selected_voice_name))
                           THEN {} ELSE {MsgVoiceIssue}]
         ELSE [voice_id |-> None,
               reqs |-> << [op |-> "voices", ok |-> FALSE] >>,
               msgs |-> {MsgVoicesError}]
    ELSE [voice_id |-> DefaultVoice, reqs |-> <<>>, msgs |-> {MsgKeyMissing}]

VoiceLookup(key, cat, pick) ==
    IF HasKey(key)
    THEN IF cat.ok
         THEN LET selected_voice_name ==
                      IF pick = 0 THEN None ELSE cat.voices[pick].name
                  selected_voice_id == FirstVoiceId(cat.voices, selected_voice_name)
              IN IF Truthy(selected_voice_id)
                 THEN [voice_id |-> selected_voice_id,
                       reqs |-> << [op |-> "voices", ok |-> TRUE] >>,
                       msgs |-> {}]
                 ELSE [voice_id |-> DefaultVoice,
                       reqs |-> << [op |-> "voices", ok |-> TRUE] >>,
                       msgs |-> {MsgVoiceIssue}]
         ELSE [voice_id |-> DefaultVoice,
               reqs |-> << [op |-> "voices", ok |-> FALSE] >>,
               msgs |-> {MsgVoicesError}]
    ELSE [voice_id |-> DefaultVoice, reqs |-> <<>>, msgs |-> {MsgKeyMissing}]

(***************************************************************************)
(* Handler of the "Generate Audio Analysis" button.                        *)
(***************************************************************************)
\* a variant that sends the analysis text itself to the speech service,
\* without generating a script
GenerateAudioFromAnalysis(st, src, key, voice_id, scriptOut, ttsOut) ==
    IF ~HasKey(key)
    THEN [st |-> st, src |-> src, reqs |-> <<>>, msgs |-> {MsgKeyNeeded}, played |-> <<>>]
    ELSE LET ttsReq == [op |-> "tts", text |-> st.analysis_result,
                        voice_id |-> voice_id, ok |-> ttsOut.ok,
                        chunks |-> ttsOut.chunks]
             audio_bytes == Accumulate(<<>>, ttsOut.chunks)
         IN IF ttsOut.ok
            THEN [st |-> [st EXCEPT !.audio = <<audio_bytes>>,
                                    !.audio_generated = TRUE],
                  src |-> st.analysis_result,
                  reqs |-> <<ttsReq>>, msgs |-> {}, played |-> <<audio_bytes>>]
            ELSE [st |-> st, src |-> src, reqs |-> <<ttsReq>>,
                  msgs |-> {MsgAudioError}, played |-> <<>>]

\* a variant that reuses a stored script instead of requesting a new one
GenerateAudioCached(st, src, key, voice_id, scriptOut, ttsOut) ==
    IF ~HasKey(key)
    THEN [st |-> st, src |-> src, reqs |-> <<>>, msgs |-> {MsgKeyNeeded}, played |-> <<>>]
    ELSE LET cached == Truthy(st.audio_script)
             scriptReq == [op |-> "script", analysis |-> st.analysis_result,
                           ok |-> scriptOut.ok, reply |-> scriptOut.content]
             scriptReqs == IF cached THEN <<>> ELSE <<scriptReq>>
         IN IF ~cached /\ ~scriptOut.ok
            THEN [st |-> st, src |-> src, reqs |-> scriptReqs,
                  msgs |-> {MsgAudioError}, played |-> <<>>]
            ELSE LET st1 == IF cached THEN st
                            ELSE [st EXCEPT !.audio_script = scriptOut.content]
                     clean_text == st1.audio_script
                     ttsReq == [op |-> "tts", text |-> clean_text,
                                voice_id |-> voice_id, ok |-> ttsOut.ok,
                                chunks |-> ttsOut.chunks]
                     audio_bytes == Accumulate(<<>>, ttsOut.chunks)
                 IN IF ttsOut.ok
                    THEN [st |-> [st1 EXCEPT !.audio = <<audio_bytes>>,
                                             !.audio_generated = TRUE],
                          src |-> clean_text,
                          reqs |-> Append(scriptReqs, ttsReq),
                          msgs |-> {},
                          played |-> <<audio_bytes>>]
                    ELSE [st |-> st1, src |-> src,
                          reqs |-> Append(scriptReqs, ttsReq),
                          msgs |-> {MsgAudioError}, played |-> <<>>]

GenerateAudio(st, src, key, voice_id, scriptOut, ttsOut) ==
    IF ~HasKey(key)
    THEN [st |-> st, src |-> src, reqs |-> <<>>, msgs |-> {MsgKeyNeeded}, played |-> <<>>]
    ELSE LET scriptReq == [op |-> "script", analysis |-> st.analysis_result,
                           ok |-> scriptOut.ok, reply |-> scriptOut.content]
         IN IF ~scriptOut.ok
            THEN [st |-> st, src |-> src, reqs |-> <<scriptReq>>,
                  msgs |-> {MsgAudioError}, played |-> <<>>]
            ELSE LET st1 == [st EXCEPT !.audio_script = scriptOut.content]
                     clean_text == st1.audio_script
                     ttsReq == [op |-> "tts", text |-> clean_text,
                                voice_id |-> voice_id, ok |-> ttsOut.ok,
                                chunks |-> ttsOut.chunks]
                     audio_bytes == Accumulate(<<>>, ttsOut.chunks)
                 IN IF ttsOut.ok
                    THEN [st |-> [st1 EXCEPT !.audio = <<audio_bytes>>,
                                             !.audio_generated = TRUE],
                          src |-> clean_text,
                          reqs |-> <<scriptReq, ttsReq>>,
                          msgs |-> {},
                          played |-> <<audio_bytes>>]
                    ELSE [st |-> st1, src |-> src,
                          reqs |-> <<scriptReq, ttsReq>>,
                          msgs |-> {MsgAudioError}, played |-> <<>>]

(***************************************************************************)
(* The analysis section and below: what every run with a video executes    *)
(* after the analyze handler.                                              *)
(***************************************************************************)
Section(st, src, listen, generate, key, cat, pick, scriptOut, ttsOut) ==
    IF ~Truthy(st.analysis_result)
    THEN [st |-> st, src |-> src, reqs |-> <<>>, msgs |-> {}, played |-> <<>>]
    ELSE LET st1 == IF listen THEN [st EXCEPT !.show_audio_options = TRUE] ELSE st
         IN IF ~st1.show_audio_options
            THEN [st |-> st1, src |-> src, reqs |-> <<>>, msgs |-> {}, played |-> <<>>]
            ELSE LET vl == VoiceLookup(key, cat, pick)
                     gen == IF generate
                            THEN GenerateAudio(st1, src, key, vl.voice_id, scriptOut, ttsOut)
                            ELSE [st |-> st1, src |-> src, reqs |-> <<>>,
                                  msgs |-> {}, played |-> <<>>]
                 IN [st |-> gen.st, src |-> gen.src,
                     reqs |-> vl.reqs \o gen.reqs,
                     msgs |-> vl.msgs \cup gen.msgs,
                     played |-> gen.played]

\* an outcome that is never used (the run does not reach the call)
NoCatalog == [ok |-> FALSE, voices |-> <<>>]
NoScript == [ok |-> FALSE, content |-> None]
NoTts == [ok |-> FALSE, chunks |-> <<>>]

\* the answers of the voice catalog a run can get: the catalog is requested
\* only when the voice settings are rendered and the credential is present
CatalogInputs(st, listen, key) ==
    IF /\ Truthy(st.analysis_result)
       /\ listen \/ st.show_audio_options
       /\ HasKey(key)
    THEN CatalogOutcomes
    ELSE {NoCatalog}

\* the answers to the script and speech requests a generate run can get: the
\* script is requested only with the credential present, and speech only for
\* a script that was returned
GenerateInputs(key) ==
    IF HasKey(key)
    THEN {[script |-> NoScript, tts |-> NoTts]}
         \cup [script : {o \in ScriptOutcomes : o.ok}, tts : TtsOutcomes]
    ELSE {[script |-> NoScript, tts |-> NoTts]}

(***************************************************************************)
(* Initial state: the first run of the script, no video uploaded.          *)
(***************************************************************************)
Init ==
    /\ API_KEY_ELEVENLABS \in KeyValues
    /\ session_state = [analysis_result |-> None,
                        audio_script |-> None,
                        audio_generated |-> FALSE,
                        show_audio_options |-> FALSE,
                        audio |-> <<>>]
    /\ audio_source = None
    /\ video_file = None
    /\ disk = {}
    /\ video_path = NoPath
    /\ button = "none"
    /\ user_query = None
    /\ pc = "idle"
    /\ processed_video = None
    /\ slow = FALSE
    /\ requests = <<>>
    /\ messages = {}
    /\ played = <<>>

(***************************************************************************)
(* The analyze handler.                                                    *)
(***************************************************************************)
\* a variant that stores response.content whether or not the prompt succeeded
StoreAnalysisAlways(st, promptOut) ==
    [st EXCEPT !.analysis_result = promptOut.content,
               !.audio_generated = FALSE,
               !.show_audio_options = FALSE,
               !.audio_script = None]

\* a variant that leaves the narration options revealed after an analysis
StoreAnalysisKeepOptions(st, promptOut) ==
    IF promptOut.ok
    THEN [st EXCEPT !.analysis_result = promptOut.content,
                    !.audio_generated = FALSE,
                    !.audio_script = None]
    ELSE st

\* a variant that leaves the audio-generated flag as it was after an analysis
StoreAnalysisKeepFlag(st, promptOut) ==
    IF promptOut.ok
    THEN [st EXCEPT !.analysis_result = promptOut.content,
                    !.show_audio_options = FALSE,
                    !.audio_script = None]
    ELSE st

\* multimodal_Agent.run and the stores that follow it
StoreAnalysis(st, promptOut) ==
    IF promptOut.ok
    THEN [st EXCEPT !.analysis_result = promptOut.content,
                    !.audio_generated = FALSE,
                    !.show_audio_options = FALSE,
                    !.audio_script = None]
    ELSE st

\* a variant in which the temp file is not on disk after the with block
WriteTempSkipped(d, path) == d

\* temp_video.write(video_file.read()): the temp file exists from here on
WriteTemp(d, path) == d \cup {path}

\* a variant in which the loop gives up once the 60 seconds have passed
LoopContinuesUntilSlow(state, isSlow) == state = "PROCESSING" /\ ~isSlow

\* while processed_video.state.name == "PROCESSING"
LoopContinues(state, isSlow) == state = "PROCESSING"

\* a variant without the finally clause
UnlinkSkipped(d, path) == d

\* finally: Path(video_path).unlink(missing_ok=True)
Unlink(d, path) == d \ {path}

\* the end of a run whose analyze handler went through try/except/finally:
\* `ok` tells whether the try block completed, st is the session state it left
AnalyzeEnd(st, ok, path, d, reqs, msgs, cat, pick) ==
    LET sec == Section(st, audio_source, FALSE, FALSE, API_KEY_ELEVENLABS,
                       cat, pick, NoScript, NoTts)
    IN /\ session_state' = sec.st
       /\ audio_source' = sec.src
       /\ disk' = Unlink(d, path)
       /\ requests' = reqs \o sec.reqs
       /\ messages' = msgs \cup (IF ok THEN {} ELSE {MsgAnalysisError}) \cup sec.msgs
       /\ played' = sec.played
       /\ pc' = "idle"
       /\ slow' = FALSE

\* the run of a script with a video present begins by writing the temp file
AnalyzePressed(q) ==
    /\ pc = "idle"
    /\ video_file # None
    /\ FreeNames(disk) # {}
    /\ video_path' = NewTemp(disk)
    /\ button' = "analyze"
    /\ user_query' = q
    /\ UNCHANGED << API_KEY_ELEVENLABS, video_file >>

\* "Analyze My Form" pressed with a blank query
AnalyzeEmptyQuery ==
    \E q \in Queries :
    \E cat \in CatalogInputs(session_state, FALSE, API_KEY_ELEVENLABS) :
    \E pick \in Picks(cat) :
        /\ QueryIsEmpty(q)
        /\ AnalyzePressed(q)
        /\ LET sec == Section(session_state, audio_source, FALSE, FALSE,
                              API_KEY_ELEVENLABS, cat, pick, NoScript, NoTts)
           IN /\ session_state' = sec.st
              /\ audio_source' = sec.src
              /\ disk' = WriteTemp(disk, video_path')
              /\ requests' = sec.reqs
              /\ messages' = {MsgEmptyQuery} \cup sec.msgs
              /\ played' = sec.played
              /\ processed_video' = None
              /\ UNCHANGED << pc, slow >>

\* a variant that tries the upload a second time before giving up
AnalyzeUploadErrorRetry ==
    \E q \in Queries :
    \E cat \in CatalogInputs(session_state, FALSE, API_KEY_ELEVENLABS) :
    \E pick \in Picks(cat) :
        /\ ~QueryIsEmpty(q)
        /\ AnalyzePressed(q)
        /\ LET d == WriteTemp(disk, video_path')
               up == [op |-> "upload", path |-> video_path',
                      present |-> video_path' \in d, ok |-> FALSE]
           IN /\ processed_video' = None
              /\ AnalyzeEnd(session_state, FALSE, video_path', d, <<up, up>>, {}, cat, pick)

\* upload_file raises
AnalyzeUploadError ==
    \E q \in Queries :
    \E cat \in CatalogInputs(session_state, FALSE, API_KEY_ELEVENLABS) :
    \E pick \in Picks(cat) :
        /\ ~QueryIsEmpty(q)
        /\ AnalyzePressed(q)
        /\ LET d == WriteTemp(disk, video_path')
               up == [op |-> "upload", path |-> video_path',
                      present |-> video_path' \in d, ok |-> FALSE]
           IN /\ processed_video' = None
              /\ AnalyzeEnd(session_state, FALSE, video_path', d, <<up>>, {}, cat, pick)

\* upload_file returns a handle that is still PROCESSING: the polling loop starts
AnalyzeUploadProcessing ==
    \E q \in Queries : \E state \in HandleStates :
        /\ ~QueryIsEmpty(q)
        /\ LoopContinues(state, FALSE)
        /\ processed_video' = state
        /\ AnalyzePressed(q)
        /\ disk' = WriteTemp(disk, video_path')
        /\ requests' = << [op |-> "upload", path |-> video_path',
                           present |-> video_path' \in disk', ok |-> TRUE] >>
        /\ messages' = {}
        /\ played' = <<>>
        /\ pc' = "polling"
        /\ slow' = FALSE
        /\ UNCHANGED session

\* upload_file returns a handle that is not PROCESSING: the loop is skipped and
\* the prompt is issued
AnalyzeUploadDone ==
    \E q \in Queries : \E state \in HandleStates :
    \E promptOut \in PromptOutcomes :
    \E cat \in CatalogInputs(StoreAnalysis(session_state, promptOut), FALSE,
                             API_KEY_ELEVENLABS) :
    \E pick \in Picks(cat) :
        /\ ~QueryIsEmpty(q)
        /\ ~LoopContinues(state, FALSE)
        /\ processed_video' = state
        /\ AnalyzePressed(q)
        /\ LET d == WriteTemp(disk, video_path')
               up == [op |-> "upload", path |-> video_path',
                      present |-> video_path' \in d, ok |-> TRUE]
               prompt == [op |-> "prompt", handle |-> state, query |-> q,
                          ok |-> promptOut.ok, reply |-> promptOut.content]
           IN AnalyzeEnd(StoreAnalysis(session_state, promptOut), promptOut.ok,
                         video_path', d, <<up, prompt>>, {}, cat, pick)

\* requests with one more poll that answered PROCESSING, while the log has
\* room for it (the poll that ends the loop is always logged)
LogPoll(reqs, ok) ==
    IF CountOp(reqs, "poll") < MaxPolls
    THEN Append(reqs, [op |-> "poll", ok |-> ok])
    ELSE reqs

\* the warning at the head of a loop iteration
SlowWarning(isSlow) == IF isSlow THEN {MsgSlow} ELSE {}

\* one iteration of the polling loop: get_file answers PROCESSING again
PollProcessing ==
    \E state \in HandleStates :
    /\ pc = "polling"
    /\ LoopContinues(state, slow)
    /\ processed_video' = state
    /\ messages' = messages \cup SlowWarning(slow)
    /\ slow' \in {slow, TRUE}
    /\ requests' = LogPoll(requests, TRUE)
    /\ UNCHANGED << API_KEY_ELEVENLABS, session_state, audio_source, video_file,
                    disk, video_path, button, user_query, pc, played >>

\* one iteration of the polling loop: get_file raises
PollError ==
    \E cat \in CatalogInputs(session_state, FALSE, API_KEY_ELEVENLABS) :
    \E pick \in Picks(cat) :
        /\ pc = "polling"
        /\ AnalyzeEnd(session_state, FALSE, video_path, disk,
                      Append(requests, [op |-> "poll", ok |-> FALSE]),
                      messages \cup SlowWarning(slow), cat, pick)
        /\ UNCHANGED << API_KEY_ELEVENLABS, video_file, video_path, button, user_query,
                        processed_video >>

\* the last iteration of the polling loop: get_file answers a state other than
\* PROCESSING, the loop ends and the prompt is issued
PollDone ==
    \E state \in HandleStates : \E promptOut \in PromptOutcomes :
    \E cat \in CatalogInputs(StoreAnalysis(session_state, promptOut), FALSE,
                             API_KEY_ELEVENLABS) :
    \E pick \in Picks(cat) :
        /\ pc = "polling"
        /\ ~LoopContinues(state, slow)
        /\ processed_video' = state
        /\ LET prompt == [op |-> "prompt", handle |-> state, query |-> user_query,
                          ok |-> promptOut.ok, reply |-> promptOut.content]
           IN AnalyzeEnd(StoreAnalysis(session_state, promptOut), promptOut.ok,
                         video_path, disk,
                         requests \o << [op |-> "poll", ok |-> TRUE], prompt >>,
                         messages \cup SlowWarning(slow), cat, pick)
        /\ UNCHANGED << API_KEY_ELEVENLABS, video_file, video_path, button, user_query >>

(***************************************************************************)
(* Runs in which the analyze button is not pressed.                        *)
(***************************************************************************)
\* a run with video v in the uploader and the given narration buttons
RunWithVideo(v, listen, generate, cat, pick, scriptOut, ttsOut) ==
    /\ pc = "idle"
    /\ FreeNames(disk) # {}
    /\ video_file' = v
    /\ video_path' = NewTemp(disk)
    /\ disk' = WriteTemp(disk, video_path')
    /\ user_query' = None
    /\ processed_video' = None
    /\ LET sec == Section(session_state, audio_source, listen, generate,
                          API_KEY_ELEVENLABS, cat, pick, scriptOut, ttsOut)
       IN /\ session_state' = sec.st
          /\ audio_source' = sec.src
          /\ requests' = sec.reqs
          /\ messages' = sec.msgs
          /\ played' = sec.played
    /\ UNCHANGED << API_KEY_ELEVENLABS, pc, slow >>

\* the user puts a (different) video into the uploader
UploadVideo ==
    \E v \in Videos \ {video_file} :
    \E cat \in CatalogInputs(session_state, FALSE, API_KEY_ELEVENLABS) :
    \E pick \in Picks(cat) :
        /\ button' = "none"
        /\ RunWithVideo(v, FALSE, FALSE, cat, pick, NoScript, NoTts)

\* the user removes the video: the else branch renders the landing page
RemoveVideo ==
    /\ pc = "idle"
    /\ video_file # None
    /\ video_file' = None
    /\ video_path' = NoPath
    /\ button' = "none"
    /\ user_query' = None
    /\ processed_video' = None
    /\ requests' = <<>>
    /\ messages' = {}
    /\ played' = <<>>
    /\ UNCHANGED << API_KEY_ELEVENLABS, session_state, audio_source, disk, pc, slow >>

\* a rerun caused by another widget (query text edited, voice selected)
Rerun ==
    \E cat \in CatalogInputs(session_state, FALSE, API_KEY_ELEVENLABS) :
    \E pick \in Picks(cat) :
        /\ video_file # None
        /\ button' = "none"
        /\ RunWithVideo(video_file, FALSE, FALSE, cat, pick, NoScript, NoTts)

\* "Listen to Analysis (Audio Options)" pressed; the button is on the page
\* when the last run rendered the analysis section
PressListen ==
    \E cat \in CatalogInputs(session_state, TRUE, API_KEY_ELEVENLABS) :
    \E pick \in Picks(cat) :
        /\ video_file # None
        /\ Truthy(session_state.analysis_result)
        /\ button' = "listen"
        /\ RunWithVideo(video_file, TRUE, FALSE, cat, pick, NoScript, NoTts)

\* "Generate Audio Analysis" pressed; the button is on the page when the last
\* run rendered the voice settings
PressGenerate ==
    \E cat \in CatalogInputs(session_state, FALSE, API_KEY_ELEVENLABS) :
    \E pick \in Picks(cat) :
    \E gen \in GenerateInputs(API_KEY_ELEVENLABS) :
        /\ video_file # None
        /\ Truthy(session_state.analysis_result)
        /\ session_state.show_audio_options
        /\ button' = "generate"
        /\ RunWithVideo(video_file, FALSE, TRUE, cat, pick, gen.script, gen.tts)

Next ==
    \/ UploadVideo
    \/ RemoveVideo
    \/ Rerun
    \/ AnalyzeEmptyQuery
    \/ AnalyzeUploadError
    \/ AnalyzeUploadProcessing
    \/ AnalyzeUploadDone
    \/ PollProcessing
    \/ PollError
    \/ PollDone
    \/ PressListen
    \/ PressGenerate

Spec == Init /\ [][Next]_vars

(***************************************************************************)
(* Properties.                                                             *)
(***************************************************************************)
\* the analysis calls and the narration calls of the remote services
AnalysisOps == {"upload", "poll", "prompt"}
NarrationOps == {"voices", "script", "tts"}

\* the current run is an analyze action that has ended
AnalyzeEnded == pc = "idle" /\ button = "analyze"

\* C1: after every successful analyze action the session holds the new
\* AnalysisResult, no NarrationScript, no NarrationAudio, and both narration
\* flags are false.
C1_AnalysisClearsNarration ==
    \A i \in 1..Len(requests) :
        (AnalyzeEnded /\ requests[i].op = "prompt" /\ requests[i].ok)
            => /\ session_state.analysis_result = requests[i].reply
               /\ session_state.audio_script = None
               /\ session_state.audio = <<>>
               /\ ~session_state.audio_generated
               /\ ~session_state.show_audio_options

\* C2: when an analyze action with a non-empty query has ended, whatever its
\* outcome, the temp file it used is not on disk.
C2_TempFileReleased ==
    (AnalyzeEnded /\ Truthy(user_query)) => video_path \notin disk

\* an analyze action that failed while polling has ended, its temp file is
\* gone and files of other runs are on disk
C2_Witness ==
    /\ AnalyzeEnded
    /\ Truthy(user_query)
    /\ MsgAnalysisError \in messages
    /\ CountOp(requests, "poll") > 0
    /\ video_path \notin disk
    /\ disk # {}

\* C3: after any run no temp file created by an earlier run remains on disk.
C3_NoLeftoverTempFiles ==
    pc = "idle" => disk \subseteq {video_path}

\* C4: an analyze action with an empty query surfaces the validation message,
\* issues no upload, poll or prompt request and leaves the session state as
\* it was.
C4_EmptyQueryRejected ==
    [][ (pc = "idle" /\ button' = "analyze" /\ user_query' = "")
            => /\ MsgEmptyQuery \in messages'
               /\ session_state' = session_state
               /\ \A i \in 1..Len(requests') : requests'[i].op \notin AnalysisOps
      ]_vars

\* an empty-query analyze action has run in a session that holds an analysis,
\* a script and generated audio
C4_Witness ==
    /\ AnalyzeEnded
    /\ user_query = ""
    /\ MsgEmptyQuery \in messages
    /\ Truthy(session_state.analysis_result)
    /\ session_state.audio_script # None
    /\ session_state.audio_generated
    /\ session_state.show_audio_options

\* C5: when the polling loop has run, a prompt request is issued only for a
\* handle whose state is READY.
C5_PromptOnlyWhenReady ==
    \A i \in 1..Len(requests) :
        (CountOp(requests, "poll") > 0 /\ requests[i].op = "prompt")
            => requests[i].handle = "READY"

\* C6: audio is stored only if a script is stored, and a script is stored only
\* if an analysis is stored.
C6_DependencyChain ==
    /\ session_state.audio # <<>> => session_state.audio_script # None
    /\ session_state.audio_script # None => session_state.analysis_result # None

\* C7: audio that is stored and flagged as generated was synthesized from the
\* script that is stored.
C7_AudioMatchesScript ==
    (session_state.audio # <<>> /\ session_state.audio_generated)
        => audio_source = session_state.audio_script

\* C8: a run in which an upload, poll, prompt, script or speech request fails
\* ends with the session state it started with.
C8_FailureRestoresState ==
    [][ (/\ pc' = "idle"
         /\ \E i \in 1..Len(requests') :
                /\ ~requests'[i].ok
                /\ requests'[i].op \in {"upload", "poll", "prompt", "script", "tts"})
            => session_state' = session_state
      ]_vars

\* C9: the stored AnalysisResult changes only in the step that ends an analyze
\* action whose prompt succeeded, and then to that prompt's reply.
C9_AnalysisOnlyByAnalyze ==
    [][ session_state'.analysis_result # session_state.analysis_result
            => /\ pc' = "idle"
               /\ button' = "analyze"
               /\ Truthy(user_query')
               /\ \E i \in 1..Len(requests') :
                      /\ requests'[i].op = "prompt"
                      /\ requests'[i].ok
                      /\ requests'[i].reply = session_state'.analysis_result
      ]_vars

\* a generate-audio action has failed after its script request and the
\* analysis is still stored
C9_Witness ==
    /\ pc = "idle"
    /\ button = "generate"
    /\ MsgAudioError \in messages
    /\ CountOp(requests, "tts") = 1
    /\ Truthy(session_state.analysis_result)

\* C10: without the speech credential no voice, script or speech request is
\* issued, no script and no audio is ever stored, and opening the options or
\* pressing generate reports the missing key.
C10_NoKeyNoNarration ==
    ~Truthy(API_KEY_ELEVENLABS)
        => /\ session_state.audio_script = None
           /\ session_state.audio = <<>>
           /\ \A i \in 1..Len(requests) : requests[i].op \notin NarrationOps
           /\ (pc = "idle" /\ button = "listen") => MsgKeyMissing \in messages
           /\ (pc = "idle" /\ button = "generate")
                  => {MsgKeyMissing, MsgKeyNeeded} \subseteq messages

\* generate was pressed without the credential
C10_Witness ==
    /\ ~Truthy(API_KEY_ELEVENLABS)
    /\ pc = "idle"
    /\ button = "generate"
    /\ MsgKeyNeeded \in messages

\* the current run is a generate-audio action that has ended
GenerateEnded == pc = "idle" /\ button = "generate"

\* the requests of one kind in the current run's log
ReqsOf(op) == {i \in 1..Len(requests) : requests[i].op = op}

\* C11: with the credential present, a generate-audio action whose voice
\* catalog lookup failed or matched no voice still issues the script request
\* and, for a returned script, the speech request, and that request carries
\* the default voice id.
C11_DefaultVoiceOnCatalogFailure ==
    (/\ GenerateEnded
     /\ Truthy(API_KEY_ELEVENLABS)
     /\ \/ MsgVoicesError \in messages
        \/ MsgVoiceIssue \in messages)
        => /\ Cardinality(ReqsOf("script")) = 1
           /\ \A i \in ReqsOf("script") :
                  requests[i].ok => Cardinality(ReqsOf("tts")) = 1
           /\ \A j \in ReqsOf("tts") : requests[j].voice_id = DefaultVoice

\* the catalog request raised and the audio was still synthesized
C11_Witness ==
    /\ GenerateEnded
    /\ MsgVoicesError \in messages
    /\ \E j \in ReqsOf("tts") : requests[j].ok /\ requests[j].voice_id = DefaultVoice
    /\ session_state.audio_generated

\* C12: audio is stored, or flagged as generated, only by a generate-audio
\* action that first got a script for the stored AnalysisResult, stored that
\* script, and synthesized the audio from it.
C12_AudioOnlyThroughScript ==
    [][ (\/ session_state'.audio # session_state.audio
         \/ session_state'.audio_generated /\ ~session_state.audio_generated)
            => /\ pc' = "idle"
               /\ button' = "generate"
               /\ session_state'.analysis_result = session_state.analysis_result
               /\ \E j \in 1..Len(requests') : \E i \in 1..(j - 1) :
                      /\ requests'[i].op = "script"
                      /\ requests'[i].ok
                      /\ requests'[i].analysis = session_state'.analysis_result
                      /\ session_state'.audio_script = requests'[i].reply
                      /\ requests'[j].op = "tts"
                      /\ requests'[j].ok
                      /\ requests'[j].text = session_state'.audio_script
      ]_vars

\* audio was generated by the first generate-audio action after an analysis
\* (no audio of an earlier action is stored), and the script it came from is
\* stored
C12_Witness ==
    /\ GenerateEnded
    /\ session_state.audio_generated
    /\ played = session_state.audio
    /\ played # <<>>
    /\ session_state.audio_script = audio_source

\* the artifacts the session holds
NoArtifacts(st) ==
    /\ st.analysis_result = None
    /\ st.audio_script = None
    /\ st.audio = <<>>

\* C13: when an upload puts a video into the uploader, the session holds no
\* AnalysisResult, NarrationScript or NarrationAudio (none of an earlier video
\* is stored or displayed).
C13_UploadStartsClean ==
    [][ (video_file' # video_file /\ video_file' # None)
            => NoArtifacts(session_state')
      ]_vars

\* C14: inside the polling loop the handle is PROCESSING and one more
\* iteration is always possible, whatever the number of polls made and whether
\* or not the 60 seconds have passed; an iteration that stays in the loop got
\* PROCESSING again and changes nothing but the log and the warnings; the loop
\* is left towards the prompt exactly when the handle is no longer PROCESSING,
\* and otherwise only by get_file raising.
C14_PollingLoop ==
    [][ pc = "polling"
            => /\ processed_video = "PROCESSING"
               /\ ENABLED PollProcessing
               /\ pc' = "polling"
                      => /\ processed_video' = "PROCESSING"
                         /\ UNCHANGED << session_state, audio_source, disk, video_path >>
                         /\ messages' \subseteq messages \cup {MsgSlow}
               /\ (pc' = "idle" /\ processed_video' # "PROCESSING")
                      => \E i \in 2..Len(requests') :
                             /\ requests'[i].op = "prompt"
                             /\ requests'[i].handle = processed_video'
                             /\ requests'[i - 1] = [op |-> "poll", ok |-> TRUE]
               /\ (pc' = "idle" /\ processed_video' = "PROCESSING")
                      => /\ MsgAnalysisError \in messages'
                         /\ \E i \in 1..Len(requests') :
                                requests'[i] = [op |-> "poll", ok |-> FALSE]
                         /\ \A i \in 1..Len(requests') : requests'[i].op # "prompt"
      ]_vars

\* an analysis succeeded after more polls than the log records and after the
\* over-60-seconds warning
C14_Witness ==
    /\ AnalyzeEnded
    /\ MsgSlow \in messages
    /\ MsgAnalysisError \notin messages
    /\ CountOp(requests, "poll") = MaxPolls + 1
    /\ \E i \in 1..Len(requests) :
           /\ requests[i].op = "prompt"
           /\ requests[i].ok
           /\ requests[i].reply = session_state.analysis_result

\* C15: script and speech requests appear only in a run in which "Generate
\* Audio Analysis" is pressed; that button can be pressed only while the
\* narration options are revealed; the options become revealed only in a run
\* in which "Listen to Analysis" is pressed; and an analyze run whose prompt
\* succeeded issues neither request and ends with the options hidden (so the
\* reveal that allows a generate is later than the latest successful analysis).
C15_NarrationNeverAutomatic ==
    [][ /\ (\E i \in 1..Len(requests') : requests'[i].op \in {"script", "tts"})
               => button' = "generate"
        /\ button' = "generate"
               => /\ session_state.show_audio_options
                  /\ Truthy(session_state.analysis_result)
        /\ (~session_state.show_audio_options /\ session_state'.show_audio_options)
               => button' = "listen"
        /\ ( /\ pc' = "idle"
             /\ button' = "analyze"
             /\ \E i \in 1..Len(requests') :
                    requests'[i].op = "prompt" /\ requests'[i].ok )
               => /\ ~session_state'.show_audio_options
                  /\ \A i \in 1..Len(requests') :
                         requests'[i].op \notin {"script", "tts"}
      ]_vars

\* a second analysis succeeded in a session whose narration had been generated
\* with the credential present: the options are hidden again
C15_Witness ==
    /\ AnalyzeEnded
    /\ HasKey(API_KEY_ELEVENLABS)
    /\ \E i \in 1..Len(requests) : requests[i].op = "prompt" /\ requests[i].ok
    /\ session_state.audio # <<>>
    /\ ~session_state.show_audio_options

\* C16: a run in which "Generate Audio Analysis" is pressed with the credential
\* present issues exactly one script request, made for the stored analysis,
\* and when that request is answered the stored script is its answer, whatever
\* script was stored before.
C16_ScriptRegenerated ==
    (GenerateEnded /\ HasKey(API_KEY_ELEVENLABS))
        => /\ Cardinality(ReqsOf("script")) = 1
           /\ \A i \in ReqsOf("script") :
                  /\ requests[i].analysis = session_state.analysis_result
                  /\ requests[i].ok => session_state.audio_script = requests[i].reply
                  /\ \A j \in ReqsOf("tts") : i < j

\* a generate run replaced the script from which the stored audio was made
C16_Witness ==
    /\ GenerateEnded
    /\ HasKey(API_KEY_ELEVENLABS)
    /\ audio_source \in ScriptTexts
    /\ session_state.audio # <<>>
    /\ \E i \in ReqsOf("script") :
           /\ requests[i].ok
           /\ requests[i].reply # audio_source
           /\ session_state.audio_script = requests[i].reply

\* C17: throughout an analyze run the analysis services get at most one upload
\* request and at most one prompt request, and an upload, poll or prompt that
\* failed is the last request made to them in that run, with the analysis
\* error shown.
C17_NoRetry ==
    button = "analyze"
        => /\ Cardinality(ReqsOf("upload")) <= 1
           /\ Cardinality(ReqsOf("prompt")) <= 1
           /\ \A i \in 1..Len(requests) :
                  (requests[i].op \in AnalysisOps /\ ~requests[i].ok)
                      => /\ pc = "idle"
                         /\ MsgAnalysisError \in messages
                         /\ \A j \in (i + 1)..Len(requests) :
                                requests[j].op \notin AnalysisOps

\* an analyze run ended by a failed poll after the upload had succeeded, in a
\* session that has an earlier analysis
C17_Witness ==
    /\ AnalyzeEnded
    /\ Truthy(session_state.analysis_result)
    /\ MsgAnalysisError \in messages
    /\ \E i \in ReqsOf("upload") : requests[i].ok
    /\ \E i \in ReqsOf("poll") : ~requests[i].ok
    /\ ReqsOf("prompt") = {}

\* the bytes of a sequence of chunks, in the order of the sequence
RECURSIVE ConcatAll(_)
ConcatAll(chunks) ==
    IF chunks = <<>> THEN <<>> ELSE Head(chunks) \o ConcatAll(Tail(chunks))

\* C18: in a generate run, when the speech stream completes the stored (and
\* played) audio is the concatenation of all its chunks in the order received
\* and the audio-generated flag is set; when the stream fails, after any
\* number of chunks, the stored audio and the flag are what they were before
\* the run and nothing is played.
C18_ChunksConcatenated ==
    [][ button' = "generate"
            => \A i \in 1..Len(requests') :
                   requests'[i].op = "tts"
                       => IF requests'[i].ok
                          THEN /\ session_state'.audio = << ConcatAll(requests'[i].chunks) >>
                               /\ session_state'.audio_generated
                               /\ played' = session_state'.audio
                          ELSE /\ session_state'.audio = session_state.audio
                               /\ session_state'.audio_generated
                                      = session_state.audio_generated
                               /\ played' = <<>>
                               /\ MsgAudioError \in messages'
      ]_vars

\* a stream failed after a chunk had been received, in a session whose stored
\* audio came from a stream of two chunks: the stored audio is still that one
C18_Witness ==
    /\ GenerateEnded
    /\ \E i \in ReqsOf("tts") : ~requests[i].ok /\ Len(requests[i].chunks) >= 1
    /\ session_state.audio_generated
    /\ session_state.audio = << <<1, 2, 3>> >>

\* C19: in every state the audio-generated flag is set only if audio bytes and
\* a narration script are stored, and the narration options are revealed only
\* if an analysis is stored.
C19_FlagsConsistent ==
    /\ session_state.audio_generated
           => /\ session_state.audio # <<>>
              /\ session_state.audio_script # None
    /\ session_state.show_audio_options
           => Truthy(session_state.analysis_result)

\* both flags are set after a generate run whose stream completed
C19_Witness ==
    /\ GenerateEnded
    /\ \E i \in ReqsOf("tts") : requests[i].ok
    /\ session_state.audio_generated
    /\ session_state.show_audio_options
    /\ session_state.audio_script \in ScriptTexts
    /\ Len(session_state.audio) = 1

\* C20: every upload request of an analyze run is given the path of the temp
\* file written at the start of that same run, and that file is on disk when
\* the request is made and for as long as the run is polling; the temp files
\* of earlier runs, unlinked or not, are never uploaded.
C20_UploadPathFresh ==
    \A i \in ReqsOf("upload") :
        /\ button = "analyze"
        /\ requests[i].present
        /\ requests[i].path = video_path
        /\ pc = "polling" => requests[i].path \in disk

\* a second analyze run on the same video, after an earlier analyze run had
\* unlinked its temp file, uploaded a file that was present
C20_Witness ==
    /\ AnalyzeEnded
    /\ Truthy(session_state.analysis_result)
    /\ MsgAnalysisError \in messages
    /\ video_path \notin disk
    /\ \E i \in ReqsOf("upload") :
           requests[i].present /\ requests[i].path = video_path

=============================================================================
